---- MODULE Spec2Model ----
(***************************************************************************)
(* Model of the TikTok analyzer backend: the job store, the processJob     *)
(* pipeline of the three source variants, the AssemblyAI polling client    *)
(* and the transcript analyzer.                                            *)
(*                                                                         *)
(*   v1 : src/server.js lines 1-213     (resolveDirectMedia, URL pipeline) *)
(*   v2 : src/unnamed/part_001          (downloadAudioBytes, byte pipeline)*)
(*   v3 : src/server.js lines 215-494   (byte pipeline, richer analyzer)   *)
(*                                                                         *)
(* One action is one synchronous run of JavaScript between two await       *)
(* points (a request handler, or the continuation that runs when a         *)
(* subprocess, a timer or an HTTP request completes).                      *)
(***************************************************************************)
EXTENDS Integers, Sequences, FiniteSets, TLC

\* ------------------------------------------------------------------ bounds
MaxChunks   == 1    \* stdout / stderr data events of one subprocess
MaxPending  == 2    \* status checks the service may leave a transcript pending
MaxFaults   == 1    \* steps in which the store refuses a statement

\* ------------------------------------------------------- program constants
MaxAttempts == 120  \* for (let i = 0; i < 120; i++)

Variants == {"v1", "v2", "v3"}

\* nullable column / optional value: <<>> is null, <<x>> is the value x
Null == <<>>
Some(x) == <<x>>

\* ------------------------------------------------------------------ texts
\* A text is a non-empty sequence of lines (txt.split("\n")); a line is a
\* sequence of tokens separated by single spaces; a punctuation token is
\* written directly after the token before it.
EmptyText == << <<>> >>
SampleText ==
  << <<"Buy", "now", "!", "This", "secret", "hack", "works", "in", "30", "days", ".">> >>
PlainText == << <<"hello", "great", "world">>, <<>>, <<"tap", "the", "link">> >>
Texts == {EmptyText, SampleText}

Punct == {"!", "?", "."}
DigitTokens == {"30"}

\* Buffer.concat(chunks), and the join of strings with nothing between them
RECURSIVE Concat(_)
Concat(ss) == IF ss = <<>> THEN "" ELSE Head(ss) \o Concat(Tail(ss))

RECURSIVE Flatten(_)
Flatten(lines) ==
  IF lines = <<>> THEN <<>> ELSE Head(lines) \o Flatten(Tail(lines))

\* the tokens of s that are in keep, in their order
Filter(s, keep) == SelectSeq(s, LAMBDA tok : tok \in keep)

\* the character of the string s at position k
CharAt(s, k) == SubSeq(s, k, k)

\* the positions of s that hold a character of cs
Positions(s, cs) == {k \in 1..Len(s) : CharAt(s, k) \in cs}

Least(S) == CHOOSE k \in S : \A j \in S : k <= j
Greatest(S) == CHOOSE k \in S : \A j \in S : k >= j

UpperCase == "ABCDEFGHIJKLMNOPQRSTUVWXYZ"
LowerCase == "abcdefghijklmnopqrstuvwxyz"

UpperChars == {CharAt(UpperCase, k) : k \in 1..Len(UpperCase)}

LowerChar(c) ==
  IF c \notin UpperChars THEN c ELSE CharAt(LowerCase, Least(Positions(UpperCase, {c})))

\* String.prototype.toLowerCase on one token
RECURSIVE ToLower(_)
ToLower(tok) ==
  IF tok = "" THEN "" ELSE LowerChar(CharAt(tok, 1)) \o ToLower(SubSeq(tok, 2, Len(tok)))

MapLower(s) == [k \in 1..Len(s) |-> ToLower(s[k])]

\* number of tokens of s that are in keep
Count(s, keep) == Cardinality({k \in 1..Len(s) : s[k] \in keep})

\* number of tokens of s that are not in drop
CountNot(s, drop) == Len(s) - Count(s, drop)

\* txt.length of one line: the tokens, one space before every token that is
\* not punctuation and not the first of the line
RECURSIVE LineChars(_, _)
LineChars(line, first) ==
  IF line = <<>> THEN 0
  ELSE Len(Head(line))
       + (IF first \/ Head(line) \in Punct THEN 0 ELSE 1)
       + LineChars(Tail(line), FALSE)

RECURSIVE TextChars(_)
TextChars(txt) ==
  IF Len(txt) = 1 THEN LineChars(txt[1], TRUE)
  ELSE LineChars(Head(txt), TRUE) + 1 + TextChars(Tail(txt))

PowerWordsV1 == {"shock", "insane", "secret", "proof", "hack", "guarantee", "science",
                 "doctor", "study"}
PowerWordsV3 == PowerWordsV1 \cup {"instant", "boost", "breakthrough", "viral", "free", "limited"}
RiskyWordsV1 == {"cure", "guarantee", "instant", "permanent", "miracle"}
RiskyWordsV3 == {"cure", "guarantee", "permanent", "miracle", "overnight", "instantly",
                 "norisk"}
CtaWordsV1 == {"link", "buy", "shop", "tap", "order", "try", "today", "now"}
CtaWordsV3 == CtaWordsV1 \cup {"subscribe", "follow", "download"}
PosWords == {"good", "great", "amazing", "win", "love", "best", "easy", "success",
             "benefit", "fast", "wow", "save", "safe"}
NegWords == {"bad", "worse", "worst", "hate", "risk", "scam", "hard", "problem", "pain",
             "danger", "fail", "loss"}

\* the characters of one line: the tokens, one space before every token that
\* is not punctuation and not the first of the line
RECURSIVE LineString(_, _)
LineString(line, first) ==
  IF line = <<>> THEN ""
  ELSE (IF first \/ Head(line) \in Punct THEN "" ELSE " ")
       \o Head(line) \o LineString(Tail(line), FALSE)

\* position in the line of the first character at which a call-to-action word
\* starts, in any case and also inside a longer word; 0 when there is none
FirstCta(line, kw) ==
  LET lower == LineString(MapLower(line), TRUE)
      hits  == {p \in 1..Len(lower) :
                  \E w \in kw : /\ p + Len(w) - 1 <= Len(lower)
                                /\ SubSeq(lower, p, p + Len(w) - 1) = w}
  IN IF hits = {} THEN 0 ELSE Least(hits)

\* /(link|buy|...)[^\n]*$/gim : per line, from the first keyword to the end
RECURSIVE CtaSuffixes(_, _)
CtaSuffixes(txt, kw) ==
  IF txt = <<>> THEN <<>>
  ELSE LET p == FirstCta(Head(txt), kw)
           s == LineString(Head(txt), TRUE)
       IN (IF p = 0 THEN <<>> ELSE <<SubSeq(s, p, Len(s))>>)
          \o CtaSuffixes(Tail(txt), kw)

\* /^(.*?(link|buy|...).*)$/gim : every whole line that holds a keyword
RECURSIVE CtaWholeLines(_, _)
CtaWholeLines(txt, kw) ==
  IF txt = <<>> THEN <<>>
  ELSE (IF FirstCta(Head(txt), kw) = 0 THEN <<>> ELSE <<LineString(Head(txt), TRUE)>>)
       \o CtaWholeLines(Tail(txt), kw)

\* the tokens of the text with one "\n" token between two lines
RECURSIVE FlattenLines(_)
FlattenLines(lines) ==
  IF Len(lines) <= 1 THEN Flatten(lines)
  ELSE Head(lines) \o <<"\n">> \o FlattenLines(Tail(lines))

\* the i-th element of a set of integers, in increasing order
Nth(S, i) == CHOOSE k \in S : Cardinality({j \in S : j <= k}) = i

\* lower.match(/\b(cure|...|instantly|no\s*risk)\b/g) : the risky words in
\* their order; "no" and "risk" with only white space between them are one
\* match, which holds that white space
RiskyClaimsV3(txt) ==
  LET toks == MapLower(FlattenLines(txt))
      RiskAfter(k) ==
        {j \in (k + 1)..Len(toks) :
           toks[j] = "risk" /\ \A q \in (k + 1)..(j - 1) : toks[q] = "\n"}
      Gap(k, j) ==
        IF j = k + 1 THEN " " ELSE Concat(SubSeq(toks, k + 1, j - 1))
      hits == {k \in 1..Len(toks) :
                 \/ toks[k] \in RiskyWordsV3
                 \/ toks[k] = "no" /\ RiskAfter(k) # {}}
      MatchAt(k) ==
        IF toks[k] = "no"
        THEN "no" \o Gap(k, Least(RiskAfter(k))) \o "risk"
        ELSE toks[k]
  IN [i \in 1..Cardinality(hits) |-> MatchAt(Nth(hits, i))]

\* list.slice(-1)[0] || ""
LastOrEmpty(s) == IF s = <<>> THEN "" ELSE s[Len(s)]

\* txt.split(/[.!?]+[\s\n]+/).map(s => s.trim()).filter(Boolean).length. A
\* separator is a run of punctuation marks with white space after it: a space
\* (a word follows on the line) or a line break; a run at the end of the text
\* is part of the last piece. A piece counts when it holds a token
SentencePieces(txt) ==
  LET toks == FlattenLines(txt)
      Separates(k) ==
        /\ toks[k] \in Punct
        /\ \E e \in k..(Len(toks) - 1) :
             /\ toks[e + 1] \notin Punct
             /\ \A q \in k..e : toks[q] \in Punct
      Holds(k) == toks[k] # "\n" /\ ~Separates(k)
      \* the token before k that is not a line break separates, or there is none
      Opens(k) ==
        IF k = 1 THEN TRUE
        ELSE IF toks[k - 1] # "\n" THEN Separates(k - 1)
        ELSE \A j \in 1..(k - 1) :
               (toks[j] # "\n" /\ \A q \in (j + 1)..(k - 1) : toks[q] = "\n")
                 => Separates(j)
  IN Cardinality({k \in 1..Len(toks) : Holds(k) /\ Opens(k)})

Max(a, b) == IF a >= b THEN a ELSE b
Abs(a) == IF a < 0 THEN 0 - a ELSE a

\* 2^e modulo n
RECURSIVE PowerOfTwoMod(_, _)
PowerOfTwoMod(e, n) == IF e = 0 THEN 1 % n ELSE (2 * PowerOfTwoMod(e - 1, n)) % n

\* the k with 2^k <= m / d < 2^(k + 1), for m > 0 and d > 0
RECURSIVE BinaryExponent(_, _)
BinaryExponent(m, d) ==
  IF m >= 2 * d THEN 1 + BinaryExponent(m, 2 * d)
  ELSE IF m < d THEN BinaryExponent(2 * m, d) - 1
  ELSE 0

\* whether the double nearest to m / 200 (m odd: half-way between two
\* hundredths) is not below m / 200. The double is q / 2^e with e = 52 - k and
\* q the integer nearest to m * 2^e / 200; it is below exactly when the
\* remainder of m * 2^e by 200 is positive and less than 100
HalfwayUp(m) ==
  LET e == 52 - BinaryExponent(m, 200)
      r == ((m % 200) * PowerOfTwoMod(e, 200)) % 200
  IN r = 0 \/ r > 100

\* +(a / b).toFixed(2), in hundredths, for a >= 0 and b > 0: the hundredth
\* nearest to the double a / b, the larger one of two equally near. The double
\* decides only when a / b is half-way between two hundredths
RatioHundredths(a, b) ==
  LET m == (200 * a) \div b
  IN IF (200 * a) % b = 0 /\ m % 2 = 1
     THEN IF HalfwayUp(m) THEN (m + 1) \div 2 ELSE (m - 1) \div 2
     ELSE (200 * a + b) \div (2 * b)

\* +(score / Math.sqrt(words)).toFixed(2), in hundredths. When words is a
\* square the root is exact and the quotient is a ratio; otherwise the quotient
\* is irrational and, for the word counts of a transcript, further from every
\* half-way point than the error of the double
SentimentHundredths(score, words) ==
  IF words = 0 \/ score = 0 THEN 0
  ELSE LET a     == 200 * Abs(score)
           roots == {n \in 1..words : n <= 46340 /\ n * n = words}
           h == IF roots # {}
                THEN RatioHundredths(Abs(score), Least(roots))
                ELSE Greatest({x \in 0..(100 * Abs(score)) :
                                 x = 0 \/ (2 * x - 1) * (2 * x - 1) <= (a * a) \div words})
       IN IF score < 0 THEN 0 - h ELSE h

\* hook score in hundredths: the four weighted signals
HookScore(hasPower, hasNumber, hasHook, words) ==
  (IF hasPower THEN 30 ELSE 0) + (IF hasNumber THEN 20 ELSE 0)
  + (IF hasHook THEN 30 ELSE 0) + (IF words >= 30 /\ words <= 220 THEN 20 ELSE 0)

\* analyzeTranscript of v1 and v2 (the same expressions)
analyzeTranscriptV1(txt) ==
  LET toks  == Flatten(txt)
      lower == MapLower(toks)
      words == CountNot(toks, Punct)
      hasNums == Count(toks, DigitTokens) > 0
      power == Filter(lower, PowerWordsV1)
      risky == Filter(lower, RiskyWordsV1)
      ctas  == CtaSuffixes(txt, CtaWordsV1)
      hasHook == txt[1] # <<>>
  IN [ metrics |-> [ length_chars |-> TextChars(txt), length_words |-> words,
                     has_numbers |-> hasNums, power_words |-> power,
                     risky_claims |-> risky, cta_lines |-> ctas ],
       hook_score |-> HookScore(power # <<>>, hasNums, hasHook, words),
       structure |-> [ prehook |-> txt[1], cta |-> LastOrEmpty(ctas),
                       has_risky_claims |-> risky # <<>> ] ]

\* analyzeTranscript of v3
analyzeTranscriptV3(txt) ==
  LET toks  == Flatten(txt)
      lower == MapLower(toks)
      words == CountNot(toks, Punct)
      sentences == Max(1, SentencePieces(txt))
      numbersCount == Count(toks, DigitTokens)
      power == Filter(lower, PowerWordsV3)
      risky == RiskyClaimsV3(txt)
      ctas  == CtaWholeLines(txt, CtaWordsV3)
      score == Count(lower, PosWords) - Count(lower, NegWords)
      prehook == txt[1]
      hasHook == LineChars(prehook, TRUE) > 0 /\ LineChars(prehook, TRUE) <= 150
  IN [ metrics |-> [ length_chars |-> TextChars(txt), length_words |-> words,
                     sentences |-> sentences,
                     avg_words_per_sentence |-> RatioHundredths(words, sentences),
                     numbers_count |-> numbersCount, power_words |-> power,
                     risky_claims |-> risky, cta_lines |-> ctas,
                     exclamations_count |-> Count(toks, {"!"}),
                     questions_count |-> Count(toks, {"?"}),
                     reading_time_sec |-> 4 * words,
                     sentiment_score |-> SentimentHundredths(score, words) ],
       hook_score |-> HookScore(power # <<>>, numbersCount > 0, hasHook, words),
       structure |-> [ prehook |-> prehook, cta |-> LastOrEmpty(ctas),
                       has_risky_claims |-> risky # <<>> ] ]

analyzeTranscript(v, txt) ==
  IF v = "v3" THEN analyzeTranscriptV3(txt) ELSE analyzeTranscriptV1(txt)

\* ------------------------------------------------- inputs of the analyzer
Rep(tok, n) == [k \in 1..n |-> tok]

\* the longest line of filler words
LineWords == 20

\* n filler words on lines of at most LineWords words
RECURSIVE Filler(_)
Filler(n) ==
  IF n <= 0 THEN <<>>
  ELSE IF n <= LineWords THEN <<Rep("word", n)>>
  ELSE <<Rep("word", LineWords)>> \o Filler(n - LineWords)

\* first lines of 0, 5, 150 and 151 characters
FirstLines ==
  { <<>>,
    <<"hello">>,
    Rep("abcdefghi", 14) \o <<"abcdefghij">>,
    Rep("abcdefghi", 14) \o <<"abcdefghijk">> }

\* word counts on both sides of the two limits of the hook score
WordCounts == {29, 30, 220, 221}

\* a text of words words: the first line, then a line with a power word
\* (when power) and a number (when number), then lines of filler words
MakeText(first, words, power, number) ==
  LET marks == (IF power THEN <<"secret">> ELSE <<>>) \o (IF number THEN <<"30">> ELSE <<>>)
  IN <<first, marks>> \o Filler(words - Len(first) - Len(marks))

\* "No risk" on one line and over two lines, a call-to-action word inside a
\* longer word, lines that hold only a punctuation mark, 43 words in 40
\* sentences, and 1600 words of which three are positive
EdgeTexts ==
  { << <<"No", "risk", "today", ".">> >>,
    << <<"overnight", "no">>, <<>>, <<"risk", "norisk">> >>,
    << <<"You", "know", "it">>, <<"hello">>, <<"follow", "me">> >>,
    PlainText,
    << <<"hello", ".">>, <<"!">> >>,
    << <<"a", ".", "b", ".">>, <<>>, <<"?">>, <<"c">> >>,
    << [k \in 1..74 |-> IF k % 2 = 1 THEN "hello" ELSE "."]
       \o <<"hello", "hello", ".", "hello", "hello", ".", "hello", "hello", ".">> >>,
    << <<"great", "great", "great">> >> \o Filler(1597) }

AnalyzerTexts ==
  {EmptyText}
  \cup {MakeText(f, w, p, n) : f \in FirstLines, w \in WordCounts, p \in BOOLEAN, n \in BOOLEAN}
  \cup EdgeTexts

\* the argument of a call: a string, or undefined or null (an absent text)
Arg(kind, text) == [kind |-> kind, text |-> text]
AnalyzerArgs ==
  {Arg("undefined", <<>>), Arg("null", <<>>)} \cup {Arg("string", t) : t \in AnalyzerTexts}

\* -------------------------------------------------------------- exceptions
Err(name, message) == [name |-> name, message |-> message]

\* String(err) of an Error object: Error.prototype.toString
ErrToString(e) ==
  IF e.message = "" THEN e.name
  ELSE IF e.name = "" THEN e.message
  ELSE e.name \o ": " \o e.message

MissingKey     == Err("Error", "Missing AAI_KEY env")
AaiTimeout     == Err("Error", "AAI timeout")
CouldNotResolve == Err("Error", "Could not resolve TikTok media URL")
FetchFailed    == Err("FetchError", "request to https://api.assemblyai.com failed")
BadJson        == Err("FetchError", "invalid json response body")

\* the TypeError of a property read on undefined or null
TypeError(kind, prop) ==
  Err("TypeError", "Cannot read properties of " \o kind \o " (reading '" \o prop \o "')")

Returns(value) == [ok |-> TRUE, value |-> Some(value), err |-> Null]
Throws(e) == [ok |-> FALSE, value |-> Null, err |-> Some(e)]

\* a call analyzeTranscript(arg). In v1 (function analyzeTranscript(txt)) an
\* absent txt passes (txt || "") and fails at txt.length; in v2 and v3
\* (function analyzeTranscript(txt = "")) undefined takes the default and null
\* fails at txt.toLowerCase()
analyzeCall(v, arg) ==
  IF v = "v1"
  THEN IF arg.kind # "string" THEN Throws(TypeError(arg.kind, "length"))
       ELSE Returns(analyzeTranscript(v, arg.text))
  ELSE IF arg.kind = "null" THEN Throws(TypeError("null", "toLowerCase"))
       ELSE Returns(analyzeTranscript(v, IF arg.kind = "undefined" THEN EmptyText ELSE arg.text))

\* ------------------------------------------------- external collaborators
Urls      == {"https://www.tiktok.com/@u/video/1"}
NoUrls    == {"", "undefined"}          \* body without tiktokUrl, or an empty one
Stderrs   == {"ERROR: blocked", "ERROR: no format"}
ExecStderrs == {"ERROR: no format"}     \* stderr of a failed `yt-dlp -g`
ChunkVals == {"ID3", "data"}

\* the k-th data event of a stream of the child: the audio starts with its
\* header, and yt-dlp reports the block before the missing format
ChunksAt(k)  == IF k = 1 THEN {"ID3"} ELSE {"data"}
StderrsAt(k) == IF k = 1 THEN {"ERROR: blocked"} ELSE {"ERROR: no format"}

\* the code of a "close" event: a number, or null when a signal ended the child
ExitCodes == {Some(0), Some(1), Null}

\* white space that has no escape in a string: U+000B, U+00A0, U+1680, U+FEFF
VerticalTab   == ""
NoBreakSpace  == " "
OghamSpace    == " "
ByteOrderMark == "﻿"

\* stdout of `yt-dlp -g`, the whole text: nothing, a line of white space, or
\* two URLs between white space
Stdouts == { "",
             " " \o VerticalTab \o "\n",
             VerticalTab \o "https://cdn/v.mp4\nhttps://cdn/a.m4a\n" \o VerticalTab \o "\n" }

\* promisified execFile: resolves with stdout, or rejects after a non-zero
\* exit (with the text of stderr) or when yt-dlp cannot be started (enoent)
ExecOutcomes ==
  {[ok |-> TRUE, enoent |-> FALSE, stdout |-> s, stderr |-> ""] : s \in Stdouts}
  \cup {[ok |-> FALSE, enoent |-> FALSE, stdout |-> "", stderr |-> e] : e \in ExecStderrs}
  \cup {[ok |-> FALSE, enoent |-> TRUE, stdout |-> "", stderr |-> ""]}

UserAgent ==
  "Mozilla/5.0 (iPhone; CPU iPhone OS 16_5 like Mac OS X) AppleWebKit/605.1.15 "
  \o "(KHTML, like Gecko) Version/16.5 Mobile/15E148 Safari/604.1"

\* const common = [...]
CommonArgs ==
  <<"--no-warnings", "--geo-bypass", "--no-check-certificate",
    "--referer", "https://www.tiktok.com/", "--user-agent", UserAgent>>

\* the argument list of exec number n of resolveDirectMedia
ExecArgs(n, url) ==
  CASE n = 1 -> CommonArgs \o <<"--extractor-args",
                                "tiktok:app_info=android;download_api=tiktok", "-g", url>>
    [] n = 2 -> CommonArgs \o <<"-g", url>>
    [] OTHER -> CommonArgs \o <<"-g", "-f", "bestaudio/best", url>>

\* args.join(" ")
RECURSIVE JoinSpace(_)
JoinSpace(args) ==
  IF args = <<>> THEN ""
  ELSE IF Len(args) = 1 THEN args[1]
  ELSE args[1] \o " " \o JoinSpace(Tail(args))

\* the arguments of invocation n of yt-dlp: how the media is delivered (-g
\* prints its URL, -o - streams its bytes), whether --extractor-args (the
\* mobile API) is passed, and the format (-f)
Strategy(v, n) ==
  IF v = "v1"
  THEN CASE n = 1 -> [mode |-> "url", hint |-> TRUE,  format |-> "default"]
         [] n = 2 -> [mode |-> "url", hint |-> FALSE, format |-> "default"]
         [] OTHER -> [mode |-> "url", hint |-> FALSE, format |-> "bestaudio/best"]
  ELSE [mode |-> "bytes", hint |-> TRUE, format |-> "bestaudio/best"]

\* POST /v2/upload: the body text of the response, or a failed request
UploadReplies ==
  { [ok |-> TRUE,  json |-> TRUE,  upload_url |-> Some("https://cdn.aai/up1"), url |-> Null,
     text |-> "{upload_url}"],
    [ok |-> TRUE,  json |-> TRUE,  upload_url |-> Null, url |-> Some("https://cdn.aai/up2"),
     text |-> "{url}"],
    [ok |-> TRUE,  json |-> TRUE,  upload_url |-> Some(""), url |-> Some("https://cdn.aai/up2"),
     text |-> "{upload_url,url}"],
    [ok |-> TRUE,  json |-> TRUE,  upload_url |-> Null, url |-> Some(""), text |-> "{url}"],
    [ok |-> TRUE,  json |-> TRUE,  upload_url |-> Null, url |-> Null, text |-> "{error}"],
    [ok |-> TRUE,  json |-> FALSE, upload_url |-> Null, url |-> Null,
     text |-> "https://cdn.aai/raw"],
    [ok |-> FALSE, json |-> FALSE, upload_url |-> Null, url |-> Null, text |-> ""] }

\* POST /v2/transcript: the parsed body (start), or the exception of fetch / r.json()
SubmitReplies ==
  { [ok |-> TRUE, id |-> Some("tr_1"), err |-> FetchFailed],
    [ok |-> TRUE, id |-> Null, err |-> FetchFailed],
    [ok |-> FALSE, id |-> Null, err |-> FetchFailed],
    [ok |-> FALSE, id |-> Null, err |-> BadJson] }

NonTerminal == {"processing"}

NoReply == [ok |-> FALSE, status |-> "", text |-> Null, error |-> Null]

\* GET /v2/transcript/<id>: the parsed body (s), or a failed request. The
\* service leaves a transcript pending for a number of checks, then answers
\* with a terminal status.
StatusReplies(stillPending) ==
  {NoReply}
  \cup (IF stillPending
        THEN {[ok |-> TRUE, status |-> s, text |-> Null, error |-> Null] : s \in NonTerminal}
        ELSE {[ok |-> TRUE, status |-> "completed", text |-> t, error |-> Null] :
                 t \in {Null} \cup {Some(x) : x \in Texts}}
             \cup {[ok |-> TRUE, status |-> "error", text |-> Null, error |-> e] :
                 e \in {Null, Some(""), Some("Transcoding failed")}})

\* ------------------------------------------------------------------ state
VARIABLES
  variant,     \* the source variant that runs
  aaiKey,      \* process.env.AAI_KEY is set
  jobLimit,    \* the environment sends requests to POST /jobs until this many jobs exist
  pendingMax,  \* the most status checks the service leaves a transcript pending
  chunkLimit,  \* the most data events of one stream of a subprocess
  jobs,        \* table jobs: jobs[id] is the row of job id (ids are 1..Len(jobs))
  log,         \* log[id]: the INSERT and UPDATE statements run on row id, in order
  runs,        \* the invocations of processJob that are past the entry guard and
               \* have not returned yet
  event,       \* what the current step was: a request to POST /jobs and its
               \* response, a call of processJob from elsewhere, or the return
               \* of an admitted invocation
  crashed,     \* an uncaught exception or an unhandled rejection ended the process
  faultLimit,  \* the most steps in which the store refuses a statement
  faults,      \* the steps in which the store has refused a statement so far
  analyzed     \* the last direct call of analyzeTranscript: its argument and outcome

vars == <<variant, aaiKey, jobLimit, pendingMax, chunkLimit, faultLimit, jobs, log, runs, event,
          crashed, faults, analyzed>>

Calls0 == [spawn |-> 0, upload |-> 0, submit |-> 0, check |-> 0, wait |-> 0]

\* the locals of one admitted invocation of processJob(id), the external
\* calls it has started (calls; wait counts the timers), the invocations of
\* yt-dlp it made (tried) and how they ended (outs), the transcript id in the
\* URL of its last status request (asked), and what the service holds for it
\* (pending: the number of checks its transcript stays pending)
NewRun(id, url) ==
  [id |-> id, url |-> url, pc |-> "entry", strat |-> 0, chunks |-> <<>>, errs |-> <<>>,
   media |-> Null, tid |-> Null, i |-> 0, s |-> NoReply, calls |-> Calls0, pending |-> 0,
   tried |-> <<>>, outs |-> <<>>, asked |-> Null, result |-> Null, err |-> Null]

NoRun == NewRun(0, "")

\* a response of POST /jobs: the HTTP status and the keys of the JSON body
Response(code, id, status, error) ==
  [code |-> code, id |-> id, status |-> status, error |-> error]
NoResponse == Response(0, Null, Null, Null)

NoEvent == [op |-> "none", id |-> 0, run |-> NoRun, req |-> "", res |-> NoResponse]
\* processJob(id) was called from outside the submit handler
Called(id) == [op |-> "call", id |-> id, run |-> NoRun, req |-> "", res |-> NoResponse]
\* the invocation run returned (normally, or through its catch block)
Return(run) == [op |-> "return", id |-> run.id, run |-> run, req |-> "", res |-> NoResponse]
\* the promise of processJob rejects and nothing handles the rejection
Unhandled(run) == [op |-> "reject", id |-> run.id, run |-> run, req |-> "", res |-> NoResponse]
\* res.status(400).json({ error: "tiktokUrl required" })
Rejected(url) ==
  [op |-> "submit", id |-> 0, run |-> NoRun, req |-> url,
   res |-> Response(400, Null, Null, Some("tiktokUrl required"))]
\* the INSERT threw: the error handler of Express answers 500
Failed(url) ==
  [op |-> "submit", id |-> 0, run |-> NoRun, req |-> url,
   res |-> Response(500, Null, Null, Null)]
\* res.json({ id, status: "queued" })
Accepted(url, id) ==
  [op |-> "submit", id |-> id, run |-> NoRun, req |-> url,
   res |-> Response(200, Some(id), Some("queued"), Null)]

\* ------------------------------------------------------------------ store
\* the store as one value, so that a step can run several statements
Store == [jobs |-> jobs, log |-> log]

\* SELECT * FROM jobs WHERE id=?
DbGet(st, id) == IF id \in 1..Len(st.jobs) THEN Some(st.jobs[id]) ELSE Null

Written(status, error, transcript, analysis) ==
  [status |-> status, error |-> error, transcript |-> transcript, analysis_json |-> analysis]

\* INSERT INTO jobs (id,tiktok_url,status,created_at,updated_at): the other
\* columns are NULL. A timestamp is the ordinal of the statement on its row.
DbInsert(st, url) ==
  [jobs |-> Append(st.jobs, [tiktok_url |-> url, status |-> "queued", created_at |-> 0,
                             updated_at |-> 0, error |-> Null, transcript |-> Null,
                             analysis_json |-> Null]),
   log  |-> Append(st.log, <<Written("queued", Null, Null, Null)>>)]

\* UPDATE jobs SET status=?, updated_at=?, error=?, transcript=?, analysis_json=? WHERE id=?
DbUpdate(st, id, status, error, transcript, analysis) ==
  IF id \notin 1..Len(st.jobs) THEN st
  ELSE [jobs |-> [st.jobs EXCEPT ![id] =
                    [@ EXCEPT !.status = status, !.updated_at = @ + 1, !.error = error,
                              !.transcript = transcript, !.analysis_json = analysis]],
        log  |-> [st.log EXCEPT ![id] = Append(@, Written(status, error, transcript, analysis))]]

\* better-sqlite3 throws when the store cannot run a statement: SQLITE_BUSY,
\* another connection holds the lock on data.db
SqliteBusy == Err("SqliteError", "database is locked")

\* what the store does with the statements of one synchronous step, in the
\* order they run: db[k] tells that it refuses statement k (get.get, ins.run or
\* upd.run throws). After a refused statement of a try block only the
\* statement of the catch block runs, so a step is decided by the first
\* refused statement and the one after it
NoFault(m) == [k \in 1..m |-> FALSE]
DbFaults(m) == {[k \in 1..m |-> k = a \/ (again /\ k = a + 1)] : a \in 1..m, again \in BOOLEAN}

\* ------------------------------------------------------------- processJob
\* the async function returns: what it returned or caught
Returned(run, result, err) == [run EXCEPT !.pc = "done", !.result = result, !.err = err]

\* the catch block threw: the promise of processJob rejects, and no caller
\* handles the rejection
Rejects(run, e) == [run EXCEPT !.pc = "rejected", !.err = Some(e)]

\* if (!row || row.status !== "queued") return;
GuardPasses(row) == row # Null /\ row[1].status = "queued"

\* the status written before the first external step
FirstStatus(v) == IF v = "v1" THEN "resolving" ELSE "downloading"

\* a catch block that writes no message
CatchNoMessage(st, run, e, db) ==
  IF Head(db) THEN [st |-> st, run |-> Rejects(run, SqliteBusy)]
  ELSE [st  |-> DbUpdate(st, run.id, "error", Null, Null, Null),
        run |-> Returned(run, Null, Some(e))]

\* catch (err) { upd.run("error", now(), String(err), null, null, id); }
\* Nothing is around the statement: when it throws, processJob rejects
Catch(st, run, e, db) ==
  IF Head(db) THEN [st |-> st, run |-> Rejects(run, SqliteBusy)]
  ELSE [st  |-> DbUpdate(st, run.id, "error", Some(ErrToString(e)), Null, Null),
        run |-> Returned(run, Null, Some(e))]

\* the first await of resolveDirectMedia (strategy 1) or of downloadAudioBytes (spawn)
StartMedia(run) ==
  IF variant = "v1"
  THEN [run EXCEPT !.pc = "exec", !.strat = 1, !.calls.spawn = @ + 1,
                   !.tried = Append(@, Strategy(variant, 1))]
  ELSE [run EXCEPT !.pc = "download", !.calls.spawn = @ + 1,
                   !.tried = Append(@, Strategy(variant, 1))]

\* the catch block of an invocation that has not reached its first await
CatchAtEntry(st, rs, run, db) ==
  LET c == Catch(st, run, SqliteBusy, db)
  IN [st |-> c.st, runs |-> rs, crash |-> c.run.pc = "rejected"]

\* processJob up to its first await: get.get(id) inside the try block, the
\* entry guard, the first status, the start of the media step. An invocation
\* that fails the guard returns.
Entry(st, rs, id, db) ==
  IF db[1] THEN CatchAtEntry(st, rs, NewRun(id, ""), Tail(db))
  ELSE LET row == DbGet(st, id)
       IN IF ~GuardPasses(row) THEN [st |-> st, runs |-> rs, crash |-> FALSE]
          ELSE IF db[2]
               THEN CatchAtEntry(st, rs, NewRun(id, row[1].tiktok_url), Tail(Tail(db)))
          ELSE [st    |-> DbUpdate(st, id, FirstStatus(variant), Null, Null, Null),
                runs  |-> Append(rs, StartMedia(NewRun(id, row[1].tiktok_url))),
                crash |-> FALSE]

\* transcribeWithAAI / aaiTranscribeFromUploadUrl up to the first await
TranscribeChecksKey(v) == v \in {"v1", "v3"}

StartTranscribe(st, run, mediaUrl, db) ==
  IF TranscribeChecksKey(variant) /\ ~aaiKey
  THEN Catch(st, [run EXCEPT !.media = Some(mediaUrl)], MissingKey, db)
  ELSE [st  |-> st,
        run |-> [run EXCEPT !.pc = "submit", !.strat = 0, !.media = Some(mediaUrl),
                            !.calls.submit = @ + 1]]

\* the media step returned (const mediaUrl = await ..., const uploadUrl =
\* await ...); upd.run("transcribing", ...); const transcript = await
\* transcribe(media)
ToTranscribing(st, run, mediaUrl, db) ==
  IF db[1] THEN Catch(st, [run EXCEPT !.media = Some(mediaUrl)], SqliteBusy, Tail(db))
  ELSE StartTranscribe(DbUpdate(st, run.id, "transcribing", Null, Null, Null), run, mediaUrl,
                       Tail(db))

\* an upload started with no status written before it
ToUploadingUnannounced(st, run, audio, db) ==
  LET run1 == [run EXCEPT !.media = Some(audio)]
  IN IF db[1] THEN Catch(st, run1, SqliteBusy, Tail(db))
     ELSE IF ~aaiKey THEN Catch(st, run1, MissingKey, Tail(db))
     ELSE [st  |-> st,
           run |-> [run1 EXCEPT !.pc = "upload", !.chunks = <<>>, !.errs = <<>>,
                                !.calls.upload = @ + 1]]

\* const audio = await downloadAudioBytes(...); upd.run("uploading", ...);
\* const uploadUrl = await aaiUpload(audio)
ToUploading(st, run, audio, db) ==
  LET st1  == DbUpdate(st, run.id, "uploading", Null, Null, Null)
      run1 == [run EXCEPT !.media = Some(audio)]
  IN IF db[1] THEN Catch(st, run1, SqliteBusy, Tail(db))
     ELSE IF ~aaiKey THEN Catch(st1, run1, MissingKey, Tail(db))
     ELSE [st  |-> st1,
           run |-> [run1 EXCEPT !.pc = "upload", !.chunks = <<>>, !.errs = <<>>,
                                !.calls.upload = @ + 1]]

\* the final write with the transcript in the error column
ToCompletedSwapped(st, run, transcript, db) ==
  IF db[1] THEN Catch(st, run, SqliteBusy, Tail(db))
  ELSE [st  |-> DbUpdate(st, run.id, "completed", Some("transcript"), Null,
                         Some(analyzeTranscript(variant, transcript))),
        run |-> Returned(run, Some(transcript), Null)]

\* the transcript written first, the analysis in a second statement
ToCompletedTwoWrites(st, run, transcript, db) ==
  IF db[1] THEN Catch(st, run, SqliteBusy, Tail(db))
  ELSE [st  |-> DbUpdate(DbUpdate(st, run.id, "completed", Null, Some(transcript), Null),
                         run.id, "completed", Null, Some(transcript),
                         Some(analyzeTranscript(variant, transcript))),
        run |-> Returned(run, Some(transcript), Null)]

\* const analysis = analyzeTranscript(transcript);
\* upd.run("completed", now(), null, transcript, JSON.stringify(analysis), id);
ToCompleted(st, run, transcript, db) ==
  IF db[1] THEN Catch(st, run, SqliteBusy, Tail(db))
  ELSE [st  |-> DbUpdate(st, run.id, "completed", Null, Some(transcript),
                         Some(analyzeTranscript(variant, transcript))),
        run |-> Returned(run, Some(transcript), Null)]

\* --------------------------------------------------- resolveDirectMedia (v1)
\* the white space and line terminators String.prototype.trim removes: tab,
\* line feed, vertical tab, form feed, carriage return, space, no-break space
\* (U+00A0), ogham space mark (U+1680) and U+FEFF. The others (U+2000 to
\* U+200A, U+2028, U+2029, U+202F, U+205F, U+3000) cannot be written in a
\* string of a module
WhiteSpace == {" ", "\t", "\n", "\r", "\f", VerticalTab, NoBreakSpace, OghamSpace, ByteOrderMark}

\* String.prototype.trimStart
RECURSIVE TrimStart(_)
TrimStart(s) ==
  IF s = "" THEN ""
  ELSE IF CharAt(s, 1) \in WhiteSpace THEN TrimStart(SubSeq(s, 2, Len(s)))
  ELSE s

\* String.prototype.trimEnd
RECURSIVE TrimEnd(_)
TrimEnd(s) ==
  IF s = "" THEN ""
  ELSE IF CharAt(s, Len(s)) \in WhiteSpace THEN TrimEnd(SubSeq(s, 1, Len(s) - 1))
  ELSE s

\* String.prototype.trim
Trim(s) == TrimEnd(TrimStart(s))

\* the first line of the output in place of the last
FirstLine(stdout) ==
  LET t  == Trim(stdout)
      nl == Positions(t, {"\n"})
  IN IF nl = {} THEN t ELSE SubSeq(t, 1, Least(nl) - 1)

\* stdout.trim().split("\n").pop()
LastLine(stdout) ==
  LET t  == Trim(stdout)
      nl == Positions(t, {"\n"})
  IN IF nl = {} THEN t ELSE SubSeq(t, Greatest(nl) + 1, Len(t))

\* the rejection of the promisified execFile for the command line cmd:
\* "Command failed: <cmd>\n<stderr>" after a non-zero exit, the spawn error
\* when yt-dlp cannot be started
ExecError(cmd, out) ==
  IF out.enoent THEN Err("Error", "spawn yt-dlp ENOENT")
  ELSE Err("Error", "Command failed: " \o cmd \o "\n" \o out.stderr)

\* the command line of exec number n of the run
CommandLine(run, n) == "yt-dlp " \o JoinSpace(ExecArgs(n, run.url))

LastStrategy == 3

\* a resolver that reports the failure of its first strategy
AfterExecFirstError(st, run, out, db) ==
  LET url  == LastLine(out.stdout)
      run1 == [run EXCEPT !.outs = Append(@, out)]
  IN IF out.ok /\ url # "" THEN ToTranscribing(st, run1, url, db)
     ELSE IF run.strat < LastStrategy
          THEN [st |-> st, run |-> [run1 EXCEPT !.strat = @ + 1, !.calls.spawn = @ + 1,
                                               !.tried = Append(@, Strategy(variant, run.strat + 1))]]
     ELSE Catch(st, run1, ExecError(CommandLine(run, 1), run1.outs[1]), db)

\* the continuation of resolveDirectMedia after exec number run.strat settled
AfterExec(st, run, out, db) ==
  LET url  == LastLine(out.stdout)
      run1 == [run EXCEPT !.outs = Append(@, out)]
  IN IF out.ok /\ url # "" THEN ToTranscribing(st, run1, url, db)
     ELSE IF run.strat < LastStrategy
          THEN [st |-> st, run |-> [run1 EXCEPT !.strat = @ + 1, !.calls.spawn = @ + 1,
                                               !.tried = Append(@, Strategy(variant, run.strat + 1))]]
     ELSE IF ~out.ok THEN Catch(st, run1, ExecError(CommandLine(run, run.strat), out), db)
     ELSE Catch(st, run1, CouldNotResolve, db)

\* ---------------------------------------------- downloadAudioBytes (v2, v3)
\* `yt-dlp exited with code ${code}`
ExitMessage(code) ==
  "yt-dlp exited with code " \o (IF code = Null THEN "null" ELSE ToString(code[1]))

\* the listeners downloadAudioBytes registers on the child process itself
ChildListeners == {"close"}

\* a close handler that resolves whenever output was received, whatever the
\* exit code
OnCloseAnyCode(st, run, code, db) ==
  LET run1 == [run EXCEPT !.outs = Append(@, [ok |-> code = Some(0), code |-> code, stdout |-> run.chunks,
                                              stderr |-> Concat(run.errs)])]
  IN IF Len(run.chunks) > 0 THEN ToUploading(st, run1, Concat(run.chunks), db)
     ELSE Catch(st, run1, Err("Error", IF Concat(run.errs) # "" THEN Concat(run.errs)
                                       ELSE ExitMessage(code)), db)

\* child.on("close", code => ...)
OnClose(st, run, code, db) ==
  LET run1 == [run EXCEPT !.outs = Append(@, [ok |-> code = Some(0), code |-> code, stdout |-> run.chunks,
                                              stderr |-> Concat(run.errs)])]
  IN IF code = Some(0) /\ Len(run.chunks) > 0 THEN ToUploading(st, run1, Concat(run.chunks), db)
     ELSE Catch(st, run1, Err("Error", IF Concat(run.errs) # "" THEN Concat(run.errs)
                                       ELSE ExitMessage(code)), db)

\* a || b takes a when a is truthy: a key that is present and not ""
Truthy(field) == field # Null /\ field[1] # ""

\* aaiUpload after the request: JSON.parse(text), j.upload_url || j.url || text
UploadResult(rep) ==
  IF rep.json /\ Truthy(rep.upload_url) THEN rep.upload_url[1]
  ELSE IF rep.json /\ Truthy(rep.url) THEN rep.url[1]
  ELSE rep.text

AfterUpload(st, run, rep, db) ==
  IF ~rep.ok THEN Catch(st, run, FetchFailed, db)
  ELSE ToTranscribing(st, [run EXCEPT !.outs = <<>>], UploadResult(rep), db)

\* ------------------------------------------------------ transcription client
\* s.text || ""
TextOrEmpty(t) == IF t = Null THEN EmptyText ELSE t[1]

\* new Error(s.error || "AAI error")
RemoteError(e) == Err("Error", IF e = Null \/ e[1] = "" THEN "AAI error" ELSE e[1])

\* await new Promise(r => setTimeout(r, 2500)): the timer is started
StartWait(run) == [run EXCEPT !.pc = "wait", !.calls.wait = @ + 1]

\* .then(r => r.json()) of the submit request, then the loop is entered
AfterSubmit(st, run, rep, db) ==
  IF ~rep.ok THEN Catch(st, run, rep.err, db)
  ELSE [st |-> st, run |-> StartWait([run EXCEPT !.media = Null, !.outs = <<>>,
                                                 !.tid = rep.id, !.i = 0])]

\* a loop that asks for the status before its first wait is over
AfterWaitTwoChecks(st, run) ==
  [st |-> st, run |-> [run EXCEPT !.pc = "poll", !.asked = Some(run.tid),
                                  !.calls.check = @ + (IF run.i = 0 THEN 2 ELSE 1)]]

\* the timer fired: fetch(`https://api.assemblyai.com/v2/transcript/${start.id}`)
AfterWait(st, run) ==
  [st |-> st, run |-> [run EXCEPT !.pc = "poll", !.calls.check = @ + 1,
                                  !.asked = Some(run.tid)]]

\* the status request settled, in one turn of `for (let i = 0; i < limit; i++)`:
\* the two tests, i++, the loop test and the next wait
PollTurn(st, run, rep, limit, db) ==
  LET run1 == [run EXCEPT !.s = rep]
  IN IF ~rep.ok THEN Catch(st, run1, FetchFailed, db)
     ELSE IF rep.status = "completed" THEN ToCompleted(st, run1, TextOrEmpty(rep.text), db)
     ELSE IF rep.status = "error" THEN Catch(st, run1, RemoteError(rep.error), db)
     ELSE IF run.i + 1 < limit THEN [st |-> st, run |-> StartWait([run1 EXCEPT !.i = @ + 1])]
     ELSE Catch(st, [run1 EXCEPT !.i = @ + 1], AaiTimeout, db)

\* a loop that gives up one check early
AfterStatusShortLoop(st, run, rep, db) == PollTurn(st, run, rep, MaxAttempts - 1, db)

\* a loop written with i <= 120
AfterStatusLongLoop(st, run, rep, db) == PollTurn(st, run, rep, MaxAttempts + 1, db)

AfterStatus(st, run, rep, db) == PollTurn(st, run, rep, MaxAttempts, db)

\* ---------------------------------------------------------------- actions
Remove(rs, r) == SubSeq(rs, 1, r - 1) \o SubSeq(rs, r + 1, Len(rs))

\* what the store does in a step of at most m statements: it runs them all,
\* or, in at most faultLimit steps of a behaviour, it refuses some
Faults(m) == IF faults < faultLimit THEN {NoFault(m)} \cup DbFaults(m) ELSE {NoFault(m)}

Refuses(db) == \E k \in 1..Len(db) : db[k]

\* the step ran a statement that db refuses: it does not end as the same step
\* does when no statement is refused (a pattern that refuses only statements
\* the step never runs is the pattern that refuses none)
Reached(res, plain, db) == Refuses(db) => res # plain

Counted(db) == IF Refuses(db) THEN faults + 1 ELSE faults

\* the state after a continuation of invocation r: an invocation that has
\* returned leaves the set of running invocations; an unhandled rejection
\* ends the process
Commit(r, res, db) ==
  /\ jobs' = res.st.jobs
  /\ log' = res.st.log
  /\ CASE res.run.pc = "done" -> runs' = Remove(runs, r) /\ event' = Return(res.run)
       [] res.run.pc = "rejected" -> runs' = Remove(runs, r) /\ event' = Unhandled(res.run)
       [] OTHER -> runs' = [runs EXCEPT ![r] = res.run] /\ event' = NoEvent
  /\ crashed' = (res.run.pc = "rejected")
  /\ faults' = Counted(db)
  /\ UNCHANGED <<variant, aaiKey, jobLimit, pendingMax, chunkLimit, faultLimit, analyzed>>

\* a test that lets an empty tiktokUrl pass
UrlMissingOnlyUndefined(url) == url = "undefined"

\* if (!tiktokUrl)
UrlMissing(url) == url \in NoUrls

\* POST /jobs: the INSERT, then processJob(id) up to its first await, then
\* the response. When the INSERT throws, Express answers 500
Submit ==
  /\ ~crashed
  /\ Len(jobs) < jobLimit
  /\ \E url \in Urls \cup NoUrls : \E db \in Faults(4) :
       IF UrlMissing(url)
       THEN /\ ~Refuses(db)
            /\ event' = Rejected(url)
            /\ UNCHANGED <<jobs, log, runs, crashed, faults>>
       ELSE IF db[1]
       THEN /\ event' = Failed(url)
            /\ faults' = Counted(db)
            /\ UNCHANGED <<jobs, log, runs, crashed>>
       ELSE LET id  == Len(jobs) + 1
                res == Entry(DbInsert(Store, url), runs, id, Tail(db))
            IN /\ Reached(res, Entry(DbInsert(Store, url), runs, id, NoFault(3)), db)
               /\ jobs' = res.st.jobs
               /\ log' = res.st.log
               /\ runs' = res.runs
               /\ crashed' = res.crash
               /\ faults' = Counted(db)
               /\ event' = Accepted(url, id)
  /\ UNCHANGED <<variant, aaiKey, jobLimit, pendingMax, chunkLimit, faultLimit, analyzed>>

\* processJob(id) invoked again, on any id: no handler of the program does
\* this, it is the duplicate trigger of a caller outside it. The SELECT runs
\* in every invocation, so the store can refuse it in every one (on a missing
\* row the UPDATE of the catch block then matches no row)
ProcessJob ==
  /\ ~crashed
  /\ \E id \in 1..jobLimit : \E db \in Faults(3) :
       LET res == Entry(Store, runs, id, db)
       IN /\ db[1] \/ Reached(res, Entry(Store, runs, id, NoFault(3)), db)
          /\ jobs' = res.st.jobs
          /\ log' = res.st.log
          /\ runs' = res.runs
          /\ crashed' = res.crash
          /\ faults' = Counted(db)
          /\ event' = Called(id)
  /\ UNCHANGED <<variant, aaiKey, jobLimit, pendingMax, chunkLimit, faultLimit, analyzed>>

\* an exec of resolveDirectMedia settles
ExecDone ==
  /\ ~crashed
  /\ \E r \in 1..Len(runs) :
       /\ runs[r].pc = "exec"
       /\ \E out \in ExecOutcomes : \E db \in Faults(2) :
           /\ Reached(AfterExec(Store, runs[r], out, db),
                      AfterExec(Store, runs[r], out, NoFault(2)), db)
           /\ Commit(r, AfterExec(Store, runs[r], out, db), db)

\* child.stdout.on("data", d => chunks.push(d))
ChildStdout ==
  /\ ~crashed
  /\ \E r \in 1..Len(runs) :
       /\ runs[r].pc = "download"
       /\ Len(runs[r].chunks) < chunkLimit
       /\ \E d \in ChunksAt(Len(runs[r].chunks) + 1) :
           /\ Commit(r, [st |-> Store, run |-> [runs[r] EXCEPT !.chunks = Append(@, d)]], NoFault(1))

\* child.stderr.on("data", d => (errText += d.toString()))
ChildStderr ==
  /\ ~crashed
  /\ \E r \in 1..Len(runs) :
       /\ runs[r].pc = "download"
       /\ Len(runs[r].errs) < chunkLimit
       /\ \E d \in StderrsAt(Len(runs[r].errs) + 1) :
           /\ Commit(r, [st |-> Store, run |-> [runs[r] EXCEPT !.errs = Append(@, d)]], NoFault(1))

\* the child emits "close"
ChildClose ==
  /\ ~crashed
  /\ \E r \in 1..Len(runs) :
       /\ runs[r].pc = "download"
       /\ \E code \in ExitCodes : \E db \in Faults(2) :
           /\ Reached(OnClose(Store, runs[r], code, db),
                      OnClose(Store, runs[r], code, NoFault(2)), db)
           /\ Commit(r, OnClose(Store, runs[r], code, db), db)

\* the child emits "error" (the spawn failed): an EventEmitter with no
\* "error" listener throws, and nothing catches it
ChildError ==
  /\ ~crashed
  /\ \E r \in 1..Len(runs) :
       /\ runs[r].pc = "download"
       /\ "error" \notin ChildListeners
       /\ crashed' = TRUE
       /\ event' = NoEvent
       /\ UNCHANGED <<variant, aaiKey, jobLimit, pendingMax, chunkLimit, faultLimit, jobs, log, runs,
                      faults, analyzed>>

\* the upload request settles
UploadDone ==
  /\ ~crashed
  /\ \E r \in 1..Len(runs) :
       /\ runs[r].pc = "upload"
       /\ \E rep \in UploadReplies : \E db \in Faults(2) :
           /\ Reached(AfterUpload(Store, runs[r], rep, db),
                      AfterUpload(Store, runs[r], rep, NoFault(2)), db)
           /\ Commit(r, AfterUpload(Store, runs[r], rep, db), db)

\* the submit request settles; the service decides how long the transcript
\* will stay pending
SubmitDone ==
  /\ ~crashed
  /\ \E r \in 1..Len(runs) :
       /\ runs[r].pc = "submit"
       /\ \E rep \in SubmitReplies : \E n \in 0..pendingMax : \E db \in Faults(1) :
         /\ rep.ok \/ n = 0
         /\ Reached(AfterSubmit(Store, [runs[r] EXCEPT !.pending = n], rep, db),
                    AfterSubmit(Store, [runs[r] EXCEPT !.pending = n], rep, NoFault(1)), db)
         /\ Commit(r, AfterSubmit(Store, [runs[r] EXCEPT !.pending = n], rep, db), db)

\* the timer of the loop fires
TimerDone ==
  /\ ~crashed
  /\ \E r \in 1..Len(runs) :
       /\ runs[r].pc = "wait"
       /\ Commit(r, AfterWait(Store, runs[r]), NoFault(1))

\* the status request settles
StatusDone ==
  /\ ~crashed
  /\ \E r \in 1..Len(runs) :
       /\ runs[r].pc = "poll"
       /\ \E rep \in StatusReplies(runs[r].calls.check <= runs[r].pending) :
         \E db \in Faults(2) :
           /\ Reached(AfterStatus(Store, runs[r], rep, db),
                      AfterStatus(Store, runs[r], rep, NoFault(2)), db)
           /\ Commit(r, AfterStatus(Store, runs[r], rep, db), db)

InitCommon ==
  /\ variant \in Variants
  /\ aaiKey \in BOOLEAN
  /\ jobs = <<>>
  /\ log = <<>>
  /\ runs = <<>>
  /\ event = NoEvent
  /\ crashed = FALSE
  /\ faults = 0
  /\ analyzed = Null

\* one job, run and invoked again at any time, and a store that may refuse
\* statements
Init ==
  InitCommon /\ jobLimit = 1 /\ pendingMax = MaxPending /\ chunkLimit = MaxChunks
    /\ faultLimit = MaxFaults

\* one job and a service that may stay pending for ever
InitPoll ==
  InitCommon /\ jobLimit = 1 /\ pendingMax = MaxAttempts + 1 /\ chunkLimit = MaxChunks
    /\ faultLimit = 0

\* two jobs, submitted at any time, and a store that may refuse statements
InitTwo ==
  InitCommon /\ jobLimit = 2 /\ pendingMax = 1 /\ chunkLimit = 1 /\ faultLimit = 1

\* two jobs, submitted at any time, a store that may refuse statements and a
\* service that answers the first status check
InitSubmit ==
  InitCommon /\ jobLimit = 2 /\ pendingMax = 0 /\ chunkLimit = 1 /\ faultLimit = 1

\* the analyzer alone: no job is submitted
InitAnalyze ==
  InitCommon /\ jobLimit = 0 /\ pendingMax = 0 /\ chunkLimit = 0 /\ faultLimit = 0

\* one job whose subprocess writes several chunks; the service answers the
\* first status check
InitBytes ==
  InitCommon /\ jobLimit = 1 /\ pendingMax = 0 /\ chunkLimit = MaxChunks + 1
    /\ faultLimit = MaxFaults

\* analyzeTranscript is called on an argument (one call in a behaviour: the
\* function keeps no state between two calls)
Analyze ==
  /\ analyzed = Null
  /\ \E arg \in AnalyzerArgs :
       analyzed' = Some([arg |-> arg, out |-> analyzeCall(variant, arg)])
  /\ UNCHANGED <<variant, aaiKey, jobLimit, pendingMax, chunkLimit, faultLimit, jobs, log, runs, event,
                 crashed, faults>>

Next ==
  \/ Submit
  \/ ProcessJob
  \/ ExecDone
  \/ ChildStdout
  \/ ChildStderr
  \/ ChildClose
  \/ ChildError
  \/ UploadDone
  \/ SubmitDone
  \/ TimerDone
  \/ StatusDone

\* the program as its handlers run it: processJob is called by POST /jobs
\* only, once for each row, on the id of the row it has just inserted
NextOnce ==
  \/ Submit
  \/ ExecDone
  \/ ChildStdout
  \/ ChildStderr
  \/ ChildClose
  \/ ChildError
  \/ UploadDone
  \/ SubmitDone
  \/ TimerDone
  \/ StatusDone

Spec == Init /\ [][Next]_vars

SpecOnce == Init /\ [][NextOnce]_vars

SpecPoll == InitPoll /\ [][Next]_vars

SpecTwo == InitTwo /\ [][NextOnce]_vars

SpecSubmit == InitSubmit /\ [][Next]_vars

SpecAnalyze == InitAnalyze /\ [][Analyze]_vars

SpecBytes == InitBytes /\ [][Next]_vars

\* every external call that is in flight settles: the exec and the child end,
\* the requests are answered or fail, the timer of the loop fires
Fairness ==
  /\ WF_vars(ExecDone)
  /\ WF_vars(ChildClose)
  /\ WF_vars(UploadDone)
  /\ WF_vars(SubmitDone)
  /\ WF_vars(TimerDone)
  /\ WF_vars(StatusDone)

SpecLive == Init /\ [][Next]_vars /\ Fairness

\* ------------------------------------------------------------- properties
Row(id) == jobs[id]
Terminal == {"completed", "error"}
Ran == event.run

\* C1: processJob(id) on an id whose row is missing, or whose status is not
\* "queued", is a no-op: no row is created or changed, no statement is run,
\* no external step is started.
C1_EntryGuard ==
  [][\A id \in 1..jobLimit :
       (/\ event' = Called(id)
        /\ (DbGet(Store, id) = Null \/ DbGet(Store, id)[1].status # "queued"))
       => UNCHANGED <<jobs, log, runs, crashed>>]_vars

\* C2: no row, and no statement ever run, has a transcript with a status
\* other than "completed", or an error with the status "completed".
StatementsOf(id) == {log[id][k] : k \in 1..Len(log[id])}

C2_TranscriptOnlyCompleted ==
  \A id \in 1..Len(jobs) : \A w \in {Row(id)} \cup StatementsOf(id) :
    /\ w.transcript # Null => w.status = "completed"
    /\ w.status = "completed" => w.error = Null

C2_Witness ==
  \E id \in 1..Len(jobs) : Row(id).status = "completed" /\ Row(id).transcript = Some(SampleText)

\* C3: in every row, transcript and analysis are both null or both set, and
\* error is set exactly when the status is "error".
C3_RowInvariant ==
  \A id \in 1..Len(jobs) : \A w \in {Row(id)} \cup StatementsOf(id) :
    /\ (w.transcript = Null) <=> (w.analysis_json = Null)
    /\ (w.error # Null) <=> (w.status = "error")

C3_Witness ==
  \E id \in 1..Len(jobs) :
    Row(id).status = "error" /\ Row(id).error # Null /\ Row(id).transcript = Null

\* C4: the statuses written to a row follow
\* queued -> resolving|downloading -> [uploading] -> transcribing -> completed,
\* with error after any status between queued and completed; a row whose
\* status is completed or error is never written again.
Moves ==
  {<<"queued", "resolving">>, <<"queued", "downloading">>,
   <<"resolving", "transcribing">>, <<"downloading", "uploading">>,
   <<"downloading", "transcribing">>, <<"uploading", "transcribing">>,
   <<"transcribing", "completed">>}
  \cup {<<a, "error">> : a \in {"resolving", "downloading", "uploading", "transcribing"}}

FollowsMoves(l) ==
  /\ l[1].status = "queued"
  /\ \A k \in 1..(Len(l) - 1) : <<l[k].status, l[k + 1].status>> \in Moves

C4_StateMachine ==
  [][\A id \in 1..Len(jobs') :
       /\ FollowsMoves(log'[id])
       /\ jobs'[id].status = log'[id][Len(log'[id])].status
       /\ (id \in 1..Len(jobs) /\ jobs[id].status \in Terminal)
            => (jobs'[id] = jobs[id] /\ log'[id] = log[id])]_vars

\* the invocation of the current step has ended: it returned, or its catch
\* block threw and its promise rejected
Ended == event.op \in {"return", "reject"}

\* C5: when a step of an admitted run raises an exception, the row is written
\* with status "error", the exception's message in error, and transcript and
\* analysis null.
C5_ErrorIsMessage ==
  (Ended /\ Ran.err # Null)
    => /\ Row(event.id).status = "error"
       /\ Row(event.id).error = Some(Ran.err[1].message)
       /\ Row(event.id).transcript = Null
       /\ Row(event.id).analysis_json = Null

\* C6: no failure of an external collaborator leaves an exception uncaught.
C6_NoEscape == ~crashed

\* C7: a run whose steps all succeed ends with a single statement that sets
\* status "completed", error null, the transcript the client returned and its
\* analysis; no statement sets "completed" without both, or a transcript
\* without "completed".
CompletedWrites(id) == {k \in 1..Len(log[id]) : log[id][k].status = "completed"}

C7_CompletedAtomically ==
  /\ (event.op = "return" /\ Ran.result # Null)
       => /\ Row(event.id).status = "completed"
          /\ Row(event.id).error = Null
          /\ Row(event.id).transcript = Ran.result
          /\ Row(event.id).analysis_json = Some(analyzeTranscript(variant, Ran.result[1]))
          /\ CompletedWrites(event.id) = {Len(log[event.id])}
  /\ \A id \in 1..Len(jobs) : \A w \in {Row(id)} \cup StatementsOf(id) :
       /\ w.status = "completed" => (w.transcript # Null /\ w.analysis_json # Null)
       /\ w.transcript # Null => w.status = "completed"

C7_Witness ==
  /\ event.op = "return"
  /\ Ran.result = Some(SampleText)
  /\ Row(event.id).transcript = Some(SampleText)

\* the invocations that passed the entry guard: each wrote the first status
AdmissionsIn(l) ==
  Cardinality({k \in 1..Len(l) : l[k].status \in {"resolving", "downloading"}})
Admissions(id) == AdmissionsIn(log[id])

\* C8: of all the invocations of processJob on one id, at most one passes the
\* entry guard and at most one is running; an invocation made while another
\* is running returns without effect.
C8_SingleRun ==
  [][/\ \A id \in 1..Len(jobs') :
          /\ AdmissionsIn(log'[id]) <= 1
          /\ Cardinality({r \in 1..Len(runs') : runs'[r].id = id}) <= 1
     /\ \A id \in 1..Len(jobs) :
          (event' = Called(id) /\ \E r \in 1..Len(runs) : runs[r].id = id)
            => UNCHANGED <<jobs, log, runs, crashed>>]_vars

\* C9: when the service answers the first k-1 checks with a non-terminal
\* status and check k with "completed" (1 <= k <= 120), the client returns the
\* text of that answer ("" when it has none) after exactly k checks.
C9_PollSuccess ==
  (/\ event.op = "return"
   /\ Ran.calls.check > 0
   /\ Ran.s.ok
   /\ Ran.s.status # "error"
   /\ Ran.pending + 1 <= 120)
    => /\ Ran.s.status = "completed"
       /\ Ran.calls.check = Ran.pending + 1
       /\ Ran.result = Some(IF Ran.s.text = Null THEN EmptyText ELSE Ran.s.text[1])
       /\ Ran.err = Null
       /\ \A r \in 1..Len(runs) : runs[r].id # event.id

C9_Witness ==
  /\ event.op = "return"
  /\ Ran.calls.check = 120
  /\ Ran.s.status = "completed"
  /\ Ran.s.text = Null
  /\ Ran.result = Some(EmptyText)

\* C10: when the service never answers "completed" or "error", the client
\* fails with the timeout error after exactly 120 checks and returns no text.
C10_PollTimeout ==
  /\ (/\ event.op = "return"
      /\ Ran.calls.check > 0
      /\ Ran.s.ok
      /\ Ran.pending >= 120)
       => /\ Ran.err = Some(Err("Error", "AAI timeout"))
          /\ Ran.result = Null
          /\ Ran.calls.check = 120
  /\ \A r \in 1..Len(runs) : runs[r].calls.check <= 120
  /\ Ran.calls.check <= 120

C10_Witness ==
  /\ event.op = "return"
  /\ Ran.pending = 121
  /\ Ran.err = Some(AaiTimeout)
  /\ Ran.calls.check = 120


\* C11: when a status check is answered with the status "error", the client
\* makes no further check and throws an Error whose message is the error text
\* of that answer ("AAI error" when the answer has none); the invocation ends
\* and the row ends with the status "error".
C11_RemoteError ==
  (Ended /\ Ran.s.ok /\ Ran.s.status = "error")
    => /\ event.op = "return"
            => Ran.err = Some(Err("Error", IF Ran.s.error \in {Null, Some("")} THEN "AAI error"
                                           ELSE Ran.s.error[1]))
       /\ Ran.result = Null
       /\ Ran.calls.check = Ran.pending + 1
       /\ \A r \in 1..Len(runs) : runs[r].id # event.id
       /\ Row(event.id).status = "error"


\* the invocations of processJob that are running or have just returned
Invocations == {runs[r] : r \in 1..Len(runs)} \cup (IF event.op = "return" THEN {Ran} ELSE {})

\* an outcome of yt-dlp that gives media: exit code 0 and some output (a
\* character that is not white space for resolveDirectMedia, a chunk for
\* downloadAudioBytes)
Usable(out) ==
  /\ out.ok
  /\ IF variant = "v1"
     THEN \E k \in 1..Len(out.stdout) : SubSeq(out.stdout, k, k) \notin WhiteSpace
     ELSE Len(out.stdout) > 0

\* the last printed line of an output: the characters i..j where j is the
\* last character that is not white space and i starts the line of j
LastPrinted(stdout) ==
  LET Blank(k) == SubSeq(stdout, k, k) \in WhiteSpace
      j == CHOOSE k \in 1..Len(stdout) :
             ~Blank(k) /\ \A q \in (k + 1)..Len(stdout) : Blank(q)
      i == CHOOSE k \in 1..j :
             /\ \A q \in k..j : SubSeq(stdout, q, q) # "\n"
             /\ k = 1 \/ SubSeq(stdout, k - 1, k - 1) = "\n"
  IN SubSeq(stdout, i, j)

\* the command lines of the three invocations of resolveDirectMedia
CommandOf(n, url) ==
  "yt-dlp --no-warnings --geo-bypass --no-check-certificate "
  \o "--referer https://www.tiktok.com/ --user-agent Mozilla/5.0 "
  \o "(iPhone; CPU iPhone OS 16_5 like Mac OS X) AppleWebKit/605.1.15 "
  \o "(KHTML, like Gecko) Version/16.5 Mobile/15E148 Safari/604.1 "
  \o (CASE n = 1 -> "--extractor-args tiktok:app_info=android;download_api=tiktok -g "
        [] n = 2 -> "-g "
        [] OTHER -> "-g -f bestaudio/best ")
  \o url

\* the message of the rejection of invocation n of yt-dlp -g
RejectedExec(n, url, out) ==
  IF out.enoent THEN "spawn yt-dlp ENOENT"
  ELSE "Command failed: " \o CommandOf(n, url) \o "\n" \o out.stderr

\* C12: when yt-dlp fails or prints nothing on strategies 1 and 2 and prints a
\* result on strategy 3, resolveDirectMedia returns the last line of the output
\* of strategy 3, and neither failure is thrown to processJob.
C12_Fallback ==
  \A run \in Invocations :
    (/\ Len(run.outs) = 3
     /\ ~Usable(run.outs[1])
     /\ ~Usable(run.outs[2])
     /\ Usable(run.outs[3]))
      => /\ run.media = Some(LastPrinted(run.outs[3].stdout))
         /\ run.err \notin {Some(Err("Error", RejectedExec(1, run.url, run.outs[1]))),
                             Some(Err("Error", RejectedExec(2, run.url, run.outs[2]))),
                             Some(CouldNotResolve)}
         /\ run.calls.spawn = 3
         /\ run.pc = "submit" => run.err = Null

C12_Witness ==
  \E r \in 1..Len(runs) :
    /\ runs[r].pc = "submit"
    /\ Len(runs[r].outs) = 3
    /\ ~runs[r].outs[1].ok
    /\ runs[r].outs[2].ok
    /\ runs[r].outs[3].stdout
         = VerticalTab \o "https://cdn/v.mp4\nhttps://cdn/a.m4a\n" \o VerticalTab \o "\n"
    /\ runs[r].media = Some("https://cdn/a.m4a")


\* the ladder of the specification: (a) the URL of the best audio with the
\* mobile API, (b) the URL of the best audio and video with the mobile API,
\* (c) the URL by the generic extractor, (d) the bytes of the best audio
OnLadder(k, s) ==
  CASE k = 1 -> s.mode = "url" /\ s.hint /\ s.format = "bestaudio/best"
    [] k = 2 -> s.mode = "url" /\ s.hint /\ s.format = "default"
    [] k = 3 -> s.mode = "url" /\ ~s.hint /\ s.format = "default"
    [] k = 4 -> s.mode = "bytes" /\ s.format = "bestaudio/best"
    [] OTHER -> FALSE

\* C13: within one invocation yt-dlp is invoked with the strategies (a), (b),
\* (c), (d) in this order, strategy n+1 only after strategy n gave no usable
\* result, and never after a strategy gave one.
C13_StrategyOrder ==
  \A run \in Invocations :
    /\ \A k \in 1..Len(run.tried) : OnLadder(k, run.tried[k])
    /\ \A k \in 1..Len(run.outs) : k < Len(run.tried) => ~Usable(run.outs[k])


\* C14: when no strategy gives a usable result, the run fails with the
\* diagnostic of the last invocation of yt-dlp: the rejection of the last exec
\* (or "Could not resolve TikTok media URL" when it printed nothing) in
\* resolveDirectMedia, the stderr text (or the exit code) of the child in
\* downloadAudioBytes; never with the diagnostic of an earlier strategy.
ExitText(code) ==
  CASE code = Null    -> "yt-dlp exited with code null"
    [] code = Some(0) -> "yt-dlp exited with code 0"
    [] code = Some(1) -> "yt-dlp exited with code 1"
    [] code = Some(2) -> "yt-dlp exited with code 2"

LastDiagnostic(url, last) ==
  IF variant = "v1"
  THEN IF last.ok THEN "Could not resolve TikTok media URL"
       ELSE RejectedExec(3, url, last)
  ELSE IF last.stderr # "" THEN last.stderr ELSE ExitText(last.code)

C14_Exhaustion ==
  (/\ event.op = "return"
   /\ Len(Ran.outs) = (IF variant = "v1" THEN 3 ELSE 1)
   /\ \A k \in 1..Len(Ran.outs) : ~Usable(Ran.outs[k]))
    => /\ Ran.err = Some(Err("Error", LastDiagnostic(Ran.url, Ran.outs[Len(Ran.outs)])))
       /\ Row(event.id).status = "error"
       /\ Row(event.id).error =
            Some("Error: " \o LastDiagnostic(Ran.url, Ran.outs[Len(Ran.outs)]))
       /\ Ran.media = Null

C14_Witness ==
  /\ event.op = "return"
  /\ Len(Ran.outs) = 3
  /\ Ran.outs[1].enoent
  /\ ~Ran.outs[2].ok
  /\ Ran.outs[3].stderr = "ERROR: no format"
  /\ Row(event.id).error =
       Some("Error: Command failed: " \o CommandOf(3, "https://www.tiktok.com/@u/video/1")
            \o "\nERROR: no format")


\* C15: when every external call settles, every job that was submitted ends
\* with the status "completed" or "error".
\* (each behaviour of SpecLive submits at most one job, with the id 1)
C15_Liveness ==
  \A id \in {1} :
    (id \in 1..Len(jobs)) ~> (id \in 1..Len(jobs) /\ jobs[id].status \in Terminal)


\* the store and the invocation of job id, as they are when the job is alone
StoreOf(id) == [jobs |-> <<jobs[id]>>, log |-> <<log[id]>>]
RunsOf(rs, id) == {rs[r] : r \in {q \in 1..Len(rs) : rs[q].id = id}}
RunsNotOf(rs, id) == {rs[r] : r \in {q \in 1..Len(rs) : rs[q].id # id}}

\* every pattern of refused statements in a step of at most m statements
AnyFaults(m) == {NoFault(m)} \cup DbFaults(m)

\* some step the invocation run can take on the store st, under some response
\* of its external call and of the store, fits
SomeStep(st, run, Fits(_)) ==
  CASE run.pc = "exec" ->
         \E out \in ExecOutcomes : \E db \in AnyFaults(2) : Fits(AfterExec(st, run, out, db))
    [] run.pc = "download" ->
         \/ \E code \in ExitCodes : \E db \in AnyFaults(2) : Fits(OnClose(st, run, code, db))
         \/ \E d \in ChunkVals : Fits([st |-> st, run |-> [run EXCEPT !.chunks = Append(@, d)]])
         \/ \E d \in Stderrs : Fits([st |-> st, run |-> [run EXCEPT !.errs = Append(@, d)]])
    [] run.pc = "upload" ->
         \E rep \in UploadReplies : \E db \in AnyFaults(2) : Fits(AfterUpload(st, run, rep, db))
    [] run.pc = "submit" ->
         \E rep \in SubmitReplies : \E n \in 0..pendingMax : \E db \in AnyFaults(1) :
           /\ rep.ok \/ n = 0
           /\ Fits(AfterSubmit(st, [run EXCEPT !.pending = n], rep, db))
    [] run.pc = "wait" -> Fits(AfterWait(st, run))
    [] run.pc = "poll" ->
         \E rep \in StatusReplies(run.calls.check <= run.pending) : \E db \in AnyFaults(2) :
           Fits(AfterStatus(st, run, rep, db))
    [] OTHER -> FALSE

\* the set of invocations rs, as invocations of job id
AsJob(rs, id) == {[rs[r] EXCEPT !.id = id] : r \in 1..Len(rs)}

\* C16: a step of the run of one job changes only the row, the statements and
\* the invocation of that job, and changes them as the same step does when the
\* job is alone in the store; a submit adds the row and the invocation of the
\* new job as it does on an empty store; and a step of one job stops no run of
\* another job: when a step ends the process, no invocation of another job is
\* in flight (an unhandled rejection is the step of the job that rejects, an
\* uncaught "error" event the step of a job whose subprocess is running). So
\* the final row of a job is the one its run gives alone under the same
\* responses.
C16_Independent ==
  [][/\ (crashed' /\ ~crashed)
          => IF event'.op = "none"
             THEN \A r \in 1..Len(runs') : runs'[r].pc = "download"
             ELSE RunsNotOf(runs', event'.id) = {}
     /\ \A id \in 1..Len(jobs) :
          (\/ jobs'[id] # jobs[id]
           \/ log'[id] # log[id]
           \/ RunsOf(runs', id) # RunsOf(runs, id))
            => /\ \A other \in (1..Len(jobs)) \ {id} :
                    /\ jobs'[other] = jobs[other]
                    /\ log'[other] = log[other]
               /\ RunsNotOf(runs', id) = RunsNotOf(runs, id)
               /\ Len(jobs') = Len(jobs)
               /\ \/ \E run \in RunsOf(runs, id) :
                       LET Fits(res) ==
                             /\ jobs'[id] = res.st.jobs[1]
                             /\ log'[id] = res.st.log[1]
                             /\ CASE res.run.pc = "done" ->
                                       /\ RunsOf(runs', id) = {}
                                       /\ event' = Return([res.run EXCEPT !.id = id])
                                  [] res.run.pc = "rejected" ->
                                       /\ RunsOf(runs', id) = {}
                                       /\ event' = Unhandled([res.run EXCEPT !.id = id])
                                  [] OTHER -> RunsOf(runs', id) = {[res.run EXCEPT !.id = id]}
                       IN SomeStep(StoreOf(id), [run EXCEPT !.id = 1], Fits)
                  \/ \E db \in AnyFaults(3) :
                       LET res == Entry(StoreOf(id), <<>>, 1, db)
                       IN /\ event' = Called(id)
                          /\ jobs'[id] = res.st.jobs[1]
                          /\ log'[id] = res.st.log[1]
                          /\ RunsOf(runs', id) = RunsOf(runs, id) \cup AsJob(res.runs, id)
     /\ Len(jobs') # Len(jobs)
          => \E url \in Urls : \E db \in AnyFaults(3) :
               LET new == Len(jobs) + 1
                   res == Entry(DbInsert([jobs |-> <<>>, log |-> <<>>], url), <<>>, 1, db)
               IN /\ Len(jobs') = new
                  /\ jobs'[new] = res.st.jobs[1]
                  /\ log'[new] = res.st.log[1]
                  /\ RunsOf(runs', new) = AsJob(res.runs, new)
                  /\ RunsNotOf(runs', new) = RunsNotOf(runs, new)]_vars

\* the status the row of job id had before its last statement
StatusBefore(id) == log[id][Len(log[id]) - 1].status

\* C17: an invocation starts the media step, the upload and the submit at most
\* once each (the media step invokes each strategy at most once); when a step
\* fails no later step has been started, no invocation of the job is left to
\* start one, and the statement that follows is the last of the row and sets
\* "error".
C17_NoRetry ==
  /\ \A run \in Invocations :
       /\ run.calls.upload <= 1
       /\ run.calls.submit <= 1
       /\ run.calls.spawn = Len(run.tried)
       /\ run.calls.spawn <= (IF variant = "v1" THEN 3 ELSE 1)
       /\ \A j, k \in 1..Len(run.tried) : run.tried[j] = run.tried[k] => j = k
       /\ Admissions(run.id) = 1
  /\ (Ended /\ Ran.err # Null)
       => /\ Row(event.id).status = "error"
          /\ log[event.id][Len(log[event.id])].status = "error"
          /\ RunsOf(runs, event.id) = {}
          /\ StatusBefore(event.id) \in {"resolving", "downloading"}
               => (Ran.calls.upload = 0 /\ Ran.calls.submit = 0 /\ Ran.calls.check = 0)
          /\ StatusBefore(event.id) = "uploading"
               => (Ran.calls.submit = 0 /\ Ran.calls.check = 0)

\* a request with no tiktokUrl, or an empty one, is answered with 400 and
\* changes nothing
Refused400 ==
  /\ event'.res = Response(400, Null, Null, Some("tiktokUrl required"))
  /\ UNCHANGED <<jobs, log, runs, crashed>>

\* one row is inserted with the status "queued" and null error, transcript
\* and analysis, the answer is {id, status: "queued"}, and one invocation of
\* processJob is started on the new id: it is running, or it has ended in its
\* first statements because the store refused one
Created ==
  LET new == Len(jobs) + 1
  IN /\ Len(jobs') = new
     /\ \A id \in 1..Len(jobs) : jobs'[id] = jobs[id] /\ log'[id] = log[id]
     /\ jobs'[new].tiktok_url = event'.req
     /\ log'[new][1] = Written("queued", Null, Null, Null)
     /\ event'.res = Response(200, Some(new), Some("queued"), Null)
     /\ RunsNotOf(runs', new) = RunsNotOf(runs, new)
     /\ \/ /\ Cardinality(RunsOf(runs', new)) = 1
           /\ Len(runs') = Len(runs) + 1
           /\ Len(log'[new]) = 2
           /\ log'[new][2] = Written(FirstStatus(variant), Null, Null, Null)
        \/ /\ runs' = runs
           /\ \/ log'[new] = << Written("queued", Null, Null, Null),
                                Written("error", Some("SqliteError: database is locked"),
                                        Null, Null) >>
              \/ Len(log'[new]) = 1 /\ crashed'

\* C18 as stated: a request to POST /jobs with no tiktokUrl, or an empty one,
\* is answered with 400 and changes nothing; a request with a tiktokUrl
\* inserts one row with the status "queued" and null error, transcript and
\* analysis, is answered with {id, status: "queued"}, and starts one
\* invocation of processJob on that id.
C18_SubmitValidation ==
  [][event'.op = "submit"
       => IF event'.req \in {"", "undefined"} THEN Refused400 ELSE Created]_vars

\* C18 as amended: a request with a tiktokUrl whose INSERT the store refuses
\* is answered with 500 and changes nothing; every other request with a
\* tiktokUrl inserts the row, is answered and starts the invocation as stated.
C18_SubmitValidationStore ==
  [][event'.op = "submit"
       => IF event'.req \in {"", "undefined"} THEN Refused400
          ELSE IF event'.res.code = 500
          THEN /\ event'.res = Response(500, Null, Null, Null)
               /\ UNCHANGED <<jobs, log, runs, crashed>>
          ELSE Created]_vars

\* with one job at its status check, a second request was refused by the
\* store
C18_Witness ==
  /\ event.op = "submit"
  /\ event.req = "https://www.tiktok.com/@u/video/1"
  /\ event.res.code = 500
  /\ Len(jobs) = 1
  /\ \E r \in 1..Len(runs) : runs[r].pc = "poll"


\* the status that announces the external step an invocation is waiting for
StepStatus(pc) ==
  CASE pc = "exec" -> "resolving"
    [] pc = "download" -> "downloading"
    [] pc = "upload" -> "uploading"
    [] pc \in {"submit", "wait", "poll"} -> "transcribing"
    [] OTHER -> "none"

\* C19: while an external step of an invocation is in flight, the row of its
\* job holds the status of that step, with error, transcript and analysis
\* null, and the statement that wrote it is the last one run on the row.
C19_ProgressVisible ==
  \A r \in 1..Len(runs) :
    /\ Row(runs[r].id).status = StepStatus(runs[r].pc)
    /\ Row(runs[r].id).error = Null
    /\ Row(runs[r].id).transcript = Null
    /\ Row(runs[r].id).analysis_json = Null
    /\ log[runs[r].id][Len(log[runs[r].id])] = Written(StepStatus(runs[r].pc), Null, Null, Null)

\* the upload of a job is in flight and its row says so
C19_Witness ==
  \E r \in 1..Len(runs) :
    /\ runs[r].pc = "upload"
    /\ runs[r].calls.upload = 1
    /\ Row(runs[r].id).status = "uploading"
    /\ Len(log[runs[r].id]) = 3


NoRemoteRequest ==
  \A run \in Invocations :
    run.calls.upload = 0 /\ run.calls.submit = 0 /\ run.calls.check = 0

\* C20: with no AAI_KEY no request is sent to the transcription service, and
\* every job ends with the status "error" and the error "Missing AAI_KEY env".
C20_MissingCredential ==
  ~aaiKey
    => /\ NoRemoteRequest
       /\ Ended => (Row(event.id).status = "error" /\ Ran.err = Some(MissingKey))


\* C21: in the byte variants the upload request has settled before the submit
\* request is sent; the submit request has settled before the first status
\* request; every status request is sent when a wait of the loop has ended,
\* so that the waits are as many as the status requests; and the status
\* requests ask for the transcript id of the answer to the submit.
C21_ProtocolOrder ==
  \A run \in Invocations :
    /\ run.calls.submit > 0
         => /\ run.pc # "upload"
            /\ run.calls.upload = (IF variant = "v1" THEN 0 ELSE 1)
    /\ run.calls.wait > 0 => (run.calls.submit = 1 /\ run.pc # "submit")
    /\ run.calls.check <= run.calls.wait
    /\ run.calls.wait = run.calls.check + (IF run.pc = "wait" THEN 1 ELSE 0)
    /\ run.asked = (IF run.calls.check = 0 THEN Null ELSE Some(run.tid))

C21_Witness ==
  /\ event.op = "return"
  /\ variant = "v3"
  /\ Ran.calls.upload = 1
  /\ Ran.calls.submit = 1
  /\ Ran.calls.wait = 3
  /\ Ran.calls.check = 3
  /\ Ran.asked = Some(Some("tr_1"))
  /\ Ran.result # Null


\* the four signals of the hook score, read from the text
WasAnalyzed == analyzed # Null
AnalyzedText == analyzed[1].arg.text
AnalyzedValue == analyzed[1].out.value[1]

SignalPower(txt) ==
  \E l \in 1..Len(txt) : \E k \in 1..Len(txt[l]) :
    ToLower(txt[l][k]) \in (IF variant = "v3" THEN PowerWordsV3 ELSE PowerWordsV1)
SignalNumber(txt) == \E l \in 1..Len(txt) : \E k \in 1..Len(txt[l]) : txt[l][k] \in DigitTokens
SignalFirstLine(txt) == LineChars(txt[1], TRUE) \in 1..150
SignalLength(txt) ==
  LET n == Cardinality({<<l, k>> \in (1..Len(txt)) \X (1..221) :
                          k <= Len(txt[l]) /\ txt[l][k] \notin Punct})
  IN n >= 30 /\ n <= 220

\* C22: the hook score of every transcript is the sum of 0.3 for a power
\* word, 0.2 for a number, 0.3 for a first line of 1 to 150 characters and
\* 0.2 for 30 to 220 words (in hundredths: 30, 20, 30, 20); it is 1.0 exactly
\* when the four signals hold and 0.0 exactly when none holds.
C22_HookScore ==
  (WasAnalyzed /\ analyzed[1].arg.kind = "string")
    => LET txt == AnalyzedText
           sum == (IF SignalPower(txt) THEN 30 ELSE 0) + (IF SignalNumber(txt) THEN 20 ELSE 0)
                  + (IF SignalFirstLine(txt) THEN 30 ELSE 0)
                  + (IF SignalLength(txt) THEN 20 ELSE 0)
       IN /\ analyzed[1].out.ok
          /\ AnalyzedValue.hook_score = sum
          /\ AnalyzedValue.hook_score \in 0..100


\* C23: analyzeTranscript returns for every argument, an absent one (undefined
\* or null) included; for an absent or empty text it returns 0 words, 0
\* sentences, no number, no power word, no risky claim, no call to action, the
\* hook score 0, an empty prehook and cta, and has_risky_claims false.
C23_AnalyzerTotal ==
  WasAnalyzed
    => /\ analyzed[1].out.ok
       /\ (analyzed[1].arg.kind # "string" \/ AnalyzedText = EmptyText)
            => /\ AnalyzedValue.metrics.length_words = 0
               /\ AnalyzedValue.metrics.power_words = <<>>
               /\ AnalyzedValue.metrics.risky_claims = <<>>
               /\ AnalyzedValue.metrics.cta_lines = <<>>
               /\ AnalyzedValue.hook_score = 0
               /\ AnalyzedValue.structure.prehook = <<>>
               /\ AnalyzedValue.structure.cta = ""
               /\ ~AnalyzedValue.structure.has_risky_claims
               /\ variant = "v3"
                    => /\ AnalyzedValue.metrics.sentences = 0
                       /\ AnalyzedValue.metrics.numbers_count = 0
                       /\ AnalyzedValue.metrics.exclamations_count = 0
                       /\ AnalyzedValue.metrics.questions_count = 0


\* the bytes of a list of chunks, joined from the last chunk backwards
RECURSIVE InArrivalOrder(_)
InArrivalOrder(ss) ==
  IF ss = <<>> THEN "" ELSE InArrivalOrder(SubSeq(ss, 1, Len(ss) - 1)) \o ss[Len(ss)]

\* the message of a rejected download: the text of stderr, or the exit code
RejectionOf(out) ==
  Err("Error", IF out.stderr # "" THEN out.stderr ELSE ExitText(out.code))

\* C24: downloadAudioBytes settles once, when the subprocess closes: while the
\* subprocess runs the promise has no outcome; after the close it resolves
\* exactly when the exit code is 0 and at least one stdout chunk arrived, with
\* the chunks joined in arrival order; in every other case it rejects with
\* the accumulated stderr text, or with the exit-code message when stderr is
\* empty.
C24_DownloadOutcome ==
  variant # "v1" =>
    \A run \in Invocations :
      /\ Len(run.outs) <= 1
      /\ run.pc = "download" => run.outs = <<>> /\ run.media = Null /\ run.err = Null
      /\ run.pc \in {"upload", "submit", "wait", "poll"} => run.err = Null
      /\ run.calls.upload > 0 => run.pc # "download"
      /\ Len(run.outs) = 1 =>
           LET out == run.outs[1]
           IN /\ run.pc \in {"upload", "done"}
              /\ IF out.ok /\ Len(out.stdout) > 0
                 THEN /\ run.media = Some(InArrivalOrder(out.stdout))
                      /\ run.err # Some(RejectionOf(out))
                      /\ run.pc = "upload" <=> aaiKey /\ run.err = Null
                 ELSE /\ run.pc = "done"
                      /\ run.media = Null
                      /\ run.calls.upload = 0
                      /\ run.err = Some(RejectionOf(out))

\* a download of two different chunks has closed with exit code 0 and the
\* upload holds the first chunk followed by the second
C24_Witness ==
  /\ variant = "v3"
  /\ \E r \in 1..Len(runs) :
       /\ runs[r].pc = "upload"
       /\ Len(runs[r].outs) = 1
       /\ runs[r].outs[1].ok
       /\ runs[r].outs[1].stdout = <<"ID3", "data">>
       /\ runs[r].media = Some("ID3data")
====
